---- MODULE Spec2Model ----
(***************************************************************************)
(* Car listings service (server.js): the listing store, the six listing   *)
(* operations and the sold-date visibility rule, for the three servers of  *)
(* the repository that mutate listings:                                    *)
(*   "db"    Supabase-backed server       src/server.js 1-429              *)
(*   "db0"   earlier Supabase server      src/unnamed/part_000             *)
(*   "file"  cars.json-backed server      src/server.js 600-927            *)
(*                                                                         *)
(* Representation.  A JavaScript string is a sequence of one-character     *)
(* strings, so that trim, toLowerCase, split and Number are computed.      *)
(* A JSON value is a record tagged by k.  A JavaScript number is an        *)
(* integer v plus an optional half (2019.5 is v = 2019, half = TRUE), NaN  *)
(* or Infinity.  Time is counted in seconds since 01/01/2050 00:00 local   *)
(* time (Date.now() / 1000 minus a constant), which keeps every date the   *)
(* parser accepts (2000..2100) inside 32-bit integers; the process runs in *)
(* a zone without daylight saving.  updatedAt, createdAt, the database row *)
(* id and the free-form optional strings are not part of the model, and a  *)
(* list response carries its listings in store order.                      *)
(*                                                                         *)
(* Each handler is given twice: as one action (GetCars, PostCars, ...),    *)
(* the server answering one request at a time, and step by step (Receive,  *)
(* BodyRead, ReadStore, WriteTmp, WriteTmpDone, Rename, DbCall), with      *)
(* several requests in flight, the process dying at any step and the file  *)
(* writes failing.  One server process is modelled.                        *)
(***************************************************************************)
EXTENDS Integers, Sequences, FiniteSets

VARIABLES backend, cars, now, req, resp, inflight, running, tmpFile

vars == <<backend, cars, now, req, resp, inflight, running, tmpFile>>

\* the requests in flight, the handler that holds the thread, and cars.json.tmp
process == <<inflight, running, tmpFile>>

-----------------------------------------------------------------------------
(* Bounds of the model *)

MaxCars == 2

MaxDay == 8

MaxSecond == 1

MaxInflight == 2

-----------------------------------------------------------------------------
(* JavaScript strings *)

Digits == <<"0", "1", "2", "3", "4", "5", "6", "7", "8", "9">>

IsSpace(c) == c = " "

IsDigit(c) == \E i \in 1..10 : Digits[i] = c

DigitVal(c) == (CHOOSE i \in 1..10 : Digits[i] = c) - 1

RECURSIVE TrimStart(_)
TrimStart(s) ==
  IF s # <<>> /\ IsSpace(Head(s)) THEN TrimStart(Tail(s)) ELSE s

RECURSIVE TrimEnd(_)
TrimEnd(s) ==
  IF s # <<>> /\ IsSpace(s[Len(s)]) THEN TrimEnd(SubSeq(s, 1, Len(s) - 1)) ELSE s

\* String.prototype.trim
Trim(s) == TrimEnd(TrimStart(s))

LowerChar(c) ==
  CASE c = "A" -> "a"
    [] c = "B" -> "b"
    [] OTHER -> c

\* String.prototype.toLowerCase
ToLowerCase(s) == [i \in 1..Len(s) |-> LowerChar(s[i])]

\* String.prototype.split(sep) for a one-character separator
RECURSIVE SplitFrom(_, _, _)
SplitFrom(s, sep, cur) ==
  IF s = <<>> THEN <<cur>>
  ELSE IF Head(s) = sep THEN <<cur>> \o SplitFrom(Tail(s), sep, <<>>)
  ELSE SplitFrom(Tail(s), sep, Append(cur, Head(s)))

Split(s, sep) == SplitFrom(s, sep, <<>>)

\* the decimal digits of a natural number
RECURSIVE DecString(_)
DecString(n) ==
  IF n < 10 THEN <<Digits[n + 1]>>
  ELSE Append(DecString(n \div 10), Digits[(n % 10) + 1])

\* String(n).padStart(2, "0")
PadStart2(s) == IF Len(s) < 2 THEN <<"0">> \o s ELSE s

RECURSIVE DecValue(_)
DecValue(s) ==
  IF s = <<>> THEN 0 ELSE DecValue(SubSeq(s, 1, Len(s) - 1)) * 10 + DigitVal(s[Len(s)])

-----------------------------------------------------------------------------
(* JavaScript numbers and JSON values *)

Num(n) == [k |-> "num", v |-> n, half |-> FALSE]

NumHalf(n) == [k |-> "num", v |-> n, half |-> TRUE]

NaN == [k |-> "nan", v |-> 0, half |-> FALSE]

Infinity == [k |-> "inf", v |-> 0, half |-> FALSE]

Undefined == [k |-> "undefined"]

Null == [k |-> "null"]

Str(s) == [k |-> "string", s |-> s]

Bool(b) == [k |-> "boolean", b |-> b]

Number(n) == [k |-> "number", n |-> n]

Arr(a) == [k |-> "array", a |-> a]

\* Number.isInteger
IsInteger(n) == n.k = "num" /\ ~n.half

\* Number.isFinite
IsFinite(n) == n.k = "num"

\* n <= 0 for a JavaScript number (false for NaN)
LeqZero(n) == n.k = "num" /\ (n.v < 0 \/ (n.v = 0 /\ ~n.half))

\* Number(str): surrounding white space is dropped, "" is 0, a run of digits is
\* its value and anything else over the model's alphabet is NaN
StringToNumber(s) ==
  LET t == Trim(s) IN
    IF t = <<>> THEN Num(0)
    ELSE IF \A i \in 1..Len(t) : IsDigit(t[i]) THEN Num(DecValue(t))
    ELSE NaN

\* Number(x) for a JSON value
ToNumber(x) ==
  CASE x.k = "undefined" -> NaN
    [] x.k = "null" -> Num(0)
    [] x.k = "number" -> x.n
    [] x.k = "string" -> StringToNumber(x.s)
    [] x.k = "boolean" -> IF x.b THEN Num(1) ELSE Num(0)
    [] OTHER -> NaN

\* Boolean(x)
Truthy(x) ==
  CASE x.k = "undefined" -> FALSE
    [] x.k = "null" -> FALSE
    [] x.k = "number" -> x.n.k = "inf" \/ (x.n.k = "num" /\ (x.n.v # 0 \/ x.n.half))
    [] x.k = "string" -> x.s # <<>>
    [] x.k = "boolean" -> x.b
    [] OTHER -> TRUE

\* String(x) for the JSON values the handlers convert
JsString(x) ==
  CASE x.k = "string" -> x.s
    [] x.k = "null" -> <<"n", "u", "l", "l">>
    [] x.k = "undefined" -> <<"u", "n", "d", "e", "f", "i", "n", "e", "d">>
    [] x.k = "boolean" ->
         IF x.b THEN <<"t", "r", "u", "e">> ELSE <<"f", "a", "l", "s", "e">>
    [] x.k = "number" /\ x.n.k = "num" /\ ~x.n.half /\ x.n.v >= 0 -> DecString(x.n.v)
    [] OTHER -> <<"x">>

\* String(x || "").trim()
TrimmedOrEmpty(x) == IF Truthy(x) THEN Trim(JsString(x)) ELSE <<>>

\* Array.isArray(x) ? x : []
ArrayOrEmpty(x) == IF x.k = "array" THEN x.a ELSE <<>>

\* Array.prototype.filter(Boolean)
FilterBoolean(a) == SelectSeq(a, Truthy)

-----------------------------------------------------------------------------
(* Calendar: what new Date(y, m - 1, d), getTime and the getters compute *)

SecPerDay == 24 * 60 * 60

\* days from 01/01/1970 to the civil date; a day past the month's end runs
\* into the next month, as the Date constructor does
DaysFromCivil(y, m, d) ==
  LET yy == IF m <= 2 THEN y - 1 ELSE y
      era == yy \div 400
      yoe == yy - era * 400
      mp == IF m > 2 THEN m - 3 ELSE m + 9
      doy == (153 * mp + 2) \div 5 + d - 1
      doe == yoe * 365 + yoe \div 4 - yoe \div 100 + doy
  IN era * 146097 + doe - 719468

\* the civil date of a day number
CivilFromDays(z0) ==
  LET z == z0 + 719468
      era == z \div 146097
      doe == z - era * 146097
      yoe == (doe - doe \div 1460 + doe \div 36524 - doe \div 146096) \div 365
      doy == doe - (365 * yoe + yoe \div 4 - yoe \div 100)
      mp == (5 * doy + 2) \div 153
      d == doy - (153 * mp + 2) \div 5 + 1
      m == IF mp < 10 THEN mp + 3 ELSE mp - 9
      y == yoe + era * 400 + (IF m <= 2 THEN 1 ELSE 0)
  IN [year |-> y, month |-> m, day |-> d]

\* 01/01/2050, the origin of the model's time scale
TimeOrigin == DaysFromCivil(2050, 1, 1)

\* new Date(year, month - 1, day).getTime(), in seconds of the model's scale
DateTime(year, month, day) == (DaysFromCivil(year, month, day) - TimeOrigin) * SecPerDay

\* the calendar day an instant falls on (getFullYear, getMonth + 1, getDate)
CivilOfTime(t) == CivilFromDays(t \div SecPerDay + TimeOrigin)

-----------------------------------------------------------------------------
(* Sold helpers (UK date DD/MM/YYYY) *)

SOLD_HIDE_DAYS == 7

NoDate == [ok |-> FALSE, time |-> 0]

\* parseUKDate without reading the date back
parseUKDateUnchecked(str) ==
  IF ~Truthy(str) THEN NoDate
  ELSE
    LET parts == Split(Trim(JsString(str)), "/") IN
      IF Len(parts) # 3 THEN NoDate
      ELSE
        LET day == StringToNumber(parts[1])
            month == StringToNumber(parts[2])
            year == StringToNumber(parts[3])
        IN
          IF ~IsInteger(day) \/ ~IsInteger(month) \/ ~IsInteger(year) THEN NoDate
          ELSE IF day.v < 1 \/ day.v > 31 \/ month.v < 1 \/ month.v > 12
                  \/ year.v < 2000 \/ year.v > 2100 THEN NoDate
          ELSE [ok |-> TRUE, time |-> DateTime(year.v, month.v, day.v)]

\* parseUKDate(str): the Date it returns, by its getTime(), or NoDate for null
parseUKDate(str) ==
  IF ~Truthy(str) THEN NoDate
  ELSE
    LET parts == Split(Trim(JsString(str)), "/") IN
      IF Len(parts) # 3 THEN NoDate
      ELSE
        LET day == StringToNumber(parts[1])
            month == StringToNumber(parts[2])
            year == StringToNumber(parts[3])
        IN
          IF ~IsInteger(day) \/ ~IsInteger(month) \/ ~IsInteger(year) THEN NoDate
          ELSE IF day.v < 1 \/ day.v > 31 \/ month.v < 1 \/ month.v > 12
                  \/ year.v < 2000 \/ year.v > 2100 THEN NoDate
          ELSE
            LET d == DateTime(year.v, month.v, day.v)
                back == CivilOfTime(d)
            IN
              IF back.year # year.v \/ back.month # month.v \/ back.day # day.v
              THEN NoDate
              ELSE [ok |-> TRUE, time |-> d]

\* soldTooOld counting whole days: hidden from the 8th day on
soldTooOldWholeDays(car, t) ==
  IF car = Null \/ ~Truthy(car.soldDate) THEN FALSE
  ELSE
    LET soldDate == parseUKDate(car.soldDate) IN
      soldDate.ok /\ (t - soldDate.time) \div SecPerDay > SOLD_HIDE_DAYS

\* soldTooOld with >= for >: a listing is hidden from the very end of the window
soldTooOldAtBoundary(car, t) ==
  IF car = Null \/ ~Truthy(car.soldDate) THEN FALSE
  ELSE
    LET soldDate == parseUKDate(car.soldDate) IN
      soldDate.ok /\ t - soldDate.time >= SOLD_HIDE_DAYS * 24 * 60 * 60

\* soldTooOld(car), with Date.now() = t
soldTooOld(car, t) ==
  IF car = Null \/ ~Truthy(car.soldDate) THEN FALSE
  ELSE
    LET soldDate == parseUKDate(car.soldDate) IN
      IF ~soldDate.ok THEN FALSE
      ELSE
        LET hideAfter == SOLD_HIDE_DAYS * 24 * 60 * 60 IN
          t - soldDate.time > hideAfter

\* todayUK(), with new Date() = t
todayUK(t) ==
  LET d == CivilOfTime(t)
      dd == PadStart2(DecString(d.day))
      mm == PadStart2(DecString(d.month))
      yyyy == DecString(d.year)
  IN dd \o <<"/">> \o mm \o <<"/">> \o yyyy

-----------------------------------------------------------------------------
(* Configuration and requests *)

DbBackends == {"db", "db0"}

Backends == DbBackends \cup {"file"}

\* process.env.ADMIN_KEY (the process exits at start when it is empty)
ADMIN_KEY == <<"k">>

\* isAdmin accepting any key that is present
isAdminAnyKey(key) == Trim(key) # <<>>

\* isAdmin(req), from the x-garage-key header ("" when the header is absent)
isAdmin(key) == Trim(key) = ADMIN_KEY

NoData == [k |-> "none"]

BadJson == [k |-> "badjson"]

NoReq == [op |-> "none", key |-> <<>>, name |-> Null, data |-> NoData]

NoResp == [status |-> 0, message |-> "", body |-> <<>>, soldDate |-> Undefined]

Reply(status, message) ==
  [status |-> status, message |-> message, body |-> <<>>, soldDate |-> Undefined]

ReplyCars(list) ==
  [status |-> 200, message |-> "", body |-> list, soldDate |-> Undefined]

ReplySold(soldDate) ==
  [status |-> 200, message |-> "", body |-> <<>>, soldDate |-> soldDate]

\* String(urlObj.searchParams.get("name") || "").trim()
QueryName(name) == TrimmedOrEmpty(name)

-----------------------------------------------------------------------------
(* The store: rows of the cars table, or the objects of cars.json *)

\* mapDbCar(row): the second definition of part_000 is the one in force there
mapDbCar(row) ==
  LET photos == IF backend = "db" THEN FilterBoolean(row.photos) ELSE row.photos IN
    [name |-> row.name, year |-> row.year, price |-> row.price,
     garageId |-> row.garageId, photos |-> photos,
     photo |-> IF Len(photos) > 0 THEN photos[1] ELSE Null,
     sold |-> row.sold, soldDate |-> row.soldDate]

\* dbListCars() / readCars()
ListCars ==
  IF backend \in DbBackends THEN [i \in 1..Len(cars) |-> mapDbCar(cars[i])] ELSE cars

\* c => String(c.name || "").toLowerCase() === name.toLowerCase()
SameNameIgnoringCase(c, name) == ToLowerCase(c.name) = ToLowerCase(name)

\* the rows .eq("name", name) selects / the objects the file server's test accepts
MatchingIn(list, name) ==
  IF backend \in DbBackends
  THEN {i \in 1..Len(list) : list[i].name = name}
  ELSE {i \in 1..Len(list) : SameNameIgnoringCase(list[i], name)}

Matching(name) == MatchingIn(cars, name)

Min(S) == CHOOSE i \in S : \A j \in S : i <= j

\* dbGetCarByName(name): .limit(1) without an order returns any matching row;
\* cars.find(...) returns the first match.  Null when there is none.
FindByName(name) ==
  IF Matching(name) = {} THEN {Null}
  ELSE IF backend \in DbBackends THEN {mapDbCar(cars[i]) : i \in Matching(name)}
  ELSE {cars[Min(Matching(name))]}

-----------------------------------------------------------------------------
(* POST /cars: validation and insertion *)

\* the photos the handler counts: the db server drops falsy entries first
CheckedPhotos(data) ==
  IF backend = "db" THEN FilterBoolean(ArrayOrEmpty(data.photos))
  ELSE ArrayOrEmpty(data.photos)

\* the 400 message of the first check that fails, "" when all pass
ValidationError(data) ==
  LET name == TrimmedOrEmpty(data.name)
      garageId == TrimmedOrEmpty(data.garageId)
      year == ToNumber(data.year)
      price == ToNumber(data.price)
      photos == CheckedPhotos(data)
  IN
    IF name = <<>> \/ garageId = <<>> THEN "Missing name/garageId"
    ELSE IF ~IsInteger(year) THEN "Year must be integer"
    ELSE IF ~IsFinite(price) \/ LeqZero(price) THEN "Price must be > 0"
    ELSE IF Len(photos) = 0 THEN "At least 1 photo required"
    ELSE ""

\* .map((x) => String(x).trim()).filter(Boolean)
TrimmedPhotos(a) ==
  LET trimmed == [i \in 1..Len(a) |-> Str(Trim(JsString(a[i])))] IN
    FilterBoolean(trimmed)

\* the row dbInsertCar(payload) inserts; part_000 keeps the photos as sent
\* (JSON.stringify, read back by JSON.parse)
dbInsertCar(payload) ==
  [name |-> TrimmedOrEmpty(payload.name),
   year |-> ToNumber(payload.year),
   price |-> ToNumber(payload.price),
   garageId |-> TrimmedOrEmpty(payload.garageId),
   photos |-> IF backend = "db" THEN TrimmedPhotos(ArrayOrEmpty(payload.photos))
              ELSE ArrayOrEmpty(payload.photos),
   photo |-> Undefined,
   sold |-> Bool(FALSE),
   soldDate |-> Null]

\* an optional field is copied when present and not blank
CopyIfPresent(x) ==
  IF x # Undefined /\ x # Null /\ Trim(JsString(x)) # <<>> THEN x ELSE Undefined

\* the object the file server pushes onto cars.json
FileCar(data) ==
  LET photos == ArrayOrEmpty(data.photos) IN
    [name |-> TrimmedOrEmpty(data.name),
     year |-> ToNumber(data.year),
     price |-> ToNumber(data.price),
     garageId |-> TrimmedOrEmpty(data.garageId),
     photos |-> photos,
     photo |-> photos[1],
     sold |-> CopyIfPresent(data.sold),
     soldDate |-> CopyIfPresent(data.soldDate)]

PostCars(key, data, dbError) ==
  /\ dbError => backend \in DbBackends
  /\ req' = [op |-> "create", key |-> key, name |-> Null, data |-> data]
  /\ IF ~isAdmin(key)
     THEN resp' = Reply(403, "Wrong key") /\ UNCHANGED cars
     ELSE IF data = BadJson
     THEN resp' = Reply(400, "Bad JSON") /\ UNCHANGED cars
     ELSE IF ValidationError(data) # ""
     THEN resp' = Reply(400, ValidationError(data)) /\ UNCHANGED cars
     ELSE IF dbError
     THEN resp' = Reply(500, "Database insert failed") /\ UNCHANGED cars
     ELSE /\ Len(cars) < MaxCars
          /\ cars' = Append(cars, IF backend \in DbBackends THEN dbInsertCar(data)
                                  ELSE FileCar(data))
          /\ resp' = Reply(200, "")
  /\ UNCHANGED <<backend, now, process>>

-----------------------------------------------------------------------------
(* GET /cars, GET /car-data, GET /cars-admin *)

GetCars(dbError) ==
  /\ dbError => backend \in DbBackends
  /\ req' = [op |-> "listPublic", key |-> <<>>, name |-> Null, data |-> NoData]
  /\ IF dbError
     THEN resp' = Reply(500, "Database error")
     ELSE LET NotTooOld(c) == ~soldTooOld(c, now) IN
            resp' = ReplyCars(SelectSeq(ListCars, NotTooOld))
  /\ UNCHANGED <<backend, cars, now, process>>

\* GET /car-data without the sold check
GetCarDataAnySold(name, dbError) ==
  /\ dbError => backend \in DbBackends
  /\ req' = [op |-> "getByName", key |-> <<>>, name |-> name, data |-> NoData]
  /\ IF QueryName(name) = <<>>
     THEN resp' = Reply(400, "Missing name")
     ELSE IF dbError
     THEN resp' = Reply(500, "Database error")
     ELSE \E car \in FindByName(QueryName(name)) :
            IF car = Null
            THEN resp' = Reply(404, "Car not found")
            ELSE resp' = ReplyCars(<<car>>)
  /\ UNCHANGED <<backend, cars, now, process>>

GetCarData(name, dbError) ==
  /\ dbError => backend \in DbBackends
  /\ req' = [op |-> "getByName", key |-> <<>>, name |-> name, data |-> NoData]
  /\ IF QueryName(name) = <<>>
     THEN resp' = Reply(400, "Missing name")
     ELSE IF dbError
     THEN resp' = Reply(500, "Database error")
     ELSE \E car \in FindByName(QueryName(name)) :
            IF car = Null \/ soldTooOld(car, now)
            THEN resp' = Reply(404, "Car not found")
            ELSE resp' = ReplyCars(<<car>>)
  /\ UNCHANGED <<backend, cars, now, process>>

\* GET /garages-data: garages.json is read and sent; its content is not modelled
GetGaragesData ==
  /\ req' = [op |-> "listGarages", key |-> <<>>, name |-> Null, data |-> NoData]
  /\ resp' = Reply(200, "")
  /\ UNCHANGED <<backend, cars, now, process>>

\* GET /cars-admin filtering like GET /cars
GetCarsAdminFiltered(key, dbError) ==
  /\ dbError => backend \in DbBackends
  /\ req' = [op |-> "listAdmin", key |-> key, name |-> Null, data |-> NoData]
  /\ IF ~isAdmin(key)
     THEN resp' = Reply(403, "Forbidden")
     ELSE IF dbError
     THEN resp' = Reply(500, "Database error")
     ELSE LET NotTooOld(c) == ~soldTooOld(c, now) IN
            resp' = ReplyCars(SelectSeq(ListCars, NotTooOld))
  /\ UNCHANGED <<backend, cars, now, process>>

GetCarsAdmin(key, dbError) ==
  /\ dbError => backend \in DbBackends
  /\ req' = [op |-> "listAdmin", key |-> key, name |-> Null, data |-> NoData]
  /\ IF ~isAdmin(key)
     THEN resp' = Reply(403, "Forbidden")
     ELSE IF dbError
     THEN resp' = Reply(500, "Database error")
     ELSE resp' = ReplyCars(ListCars)
  /\ UNCHANGED <<backend, cars, now, process>>

-----------------------------------------------------------------------------
(* DELETE /cars *)

\* a delete that leaves nothing once a listing matches
RemainingNone(name) ==
  LET Keep(c) == IF backend \in DbBackends THEN c.name # name
                 ELSE ~SameNameIgnoringCase(c, name)
  IN IF \A i \in 1..Len(cars) : Keep(cars[i]) THEN cars ELSE <<>>

\* a delete that removes the first match only
RemainingAfterFirst(name) ==
  LET hit == {i \in 1..Len(cars) :
                IF backend \in DbBackends THEN cars[i].name = name
                ELSE SameNameIgnoringCase(cars[i], name)}
  IN IF hit = {} THEN cars
     ELSE SubSeq(cars, 1, Min(hit) - 1) \o SubSeq(cars, Min(hit) + 1, Len(cars))

\* the listings a delete by name leaves
Remaining(name) ==
  LET Keep(c) == IF backend \in DbBackends THEN c.name # name
                 ELSE ~SameNameIgnoringCase(c, name)
  IN SelectSeq(cars, Keep)

DeleteCars(key, name, dbError) ==
  /\ dbError => backend \in DbBackends
  /\ req' = [op |-> "delete", key |-> key, name |-> name, data |-> NoData]
  /\ IF ~isAdmin(key)
     THEN resp' = Reply(403, "Wrong key") /\ UNCHANGED cars
     ELSE IF QueryName(name) = <<>>
     THEN resp' = Reply(400, "Missing name") /\ UNCHANGED cars
     ELSE IF dbError
     THEN resp' = Reply(500, "Database delete failed") /\ UNCHANGED cars
     ELSE IF Len(Remaining(QueryName(name))) = Len(cars)
     THEN resp' = Reply(404, "Not found") /\ UNCHANGED cars
     ELSE cars' = Remaining(QueryName(name)) /\ resp' = Reply(200, "")
  /\ UNCHANGED <<backend, now, process>>

-----------------------------------------------------------------------------
(* POST /cars-sold *)

\* an update that flips sold instead of setting it
dbMarkSoldToggle(name) ==
  [i \in 1..Len(cars) |->
     IF i \in Matching(name)
     THEN [cars[i] EXCEPT !.sold = Bool(cars[i].sold # Bool(TRUE)),
                          !.soldDate = Str(todayUK(now))]
     ELSE cars[i]]

\* dbMarkSoldByName(name): the table after the update of every row named name
dbMarkSoldByName(name) ==
  [i \in 1..Len(cars) |->
     IF i \in Matching(name)
     THEN [cars[i] EXCEPT !.sold = Bool(TRUE), !.soldDate = Str(todayUK(now))]
     ELSE cars[i]]

\* cars[idx].sold = true; cars[idx].soldDate = cars[idx].soldDate || todayUK()
FileMarkSold(idx) ==
  [cars EXCEPT ![idx] =
     [@ EXCEPT !.sold = Bool(TRUE),
               !.soldDate = IF Truthy(@) THEN @ ELSE Str(todayUK(now))]]

PostCarsSold(key, name, dbError) ==
  /\ dbError => backend \in DbBackends
  /\ req' = [op |-> "markSold", key |-> key, name |-> name, data |-> NoData]
  /\ IF ~isAdmin(key)
     THEN resp' = Reply(403, "Wrong key") /\ UNCHANGED cars
     ELSE IF QueryName(name) = <<>>
     THEN resp' = Reply(400, "Missing name") /\ UNCHANGED cars
     ELSE IF backend \in DbBackends
     THEN IF dbError
          THEN resp' = Reply(500, "Database update failed") /\ UNCHANGED cars
          ELSE /\ cars' = dbMarkSoldByName(QueryName(name))
               /\ resp' = ReplySold(Str(todayUK(now)))
     ELSE IF Matching(QueryName(name)) = {}
     THEN resp' = Reply(404, "Not found") /\ UNCHANGED cars
     ELSE LET idx == Min(Matching(QueryName(name))) IN
            /\ cars' = FileMarkSold(idx)
            /\ resp' = ReplySold(FileMarkSold(idx)[idx].soldDate)
  /\ UNCHANGED <<backend, now, process>>

-----------------------------------------------------------------------------
(* The handlers step by step: requests in flight at their await points, the   *)
(* synchronous sections of the file server, and the two calls of writeJsonFile *)

Slots == 1..MaxInflight

Idle == [pc |-> "idle"]

\* cars.json.tmp: absent, or the document written to it, in part or in full
NoFile == [exists |-> FALSE]

File(doc, complete) == [exists |-> TRUE, doc |-> doc, complete |-> complete]

\* what safeReadJsonArray makes of a file: [] when it is absent or does not parse
Parsed(f) == IF f.exists /\ f.complete THEN f.doc ELSE <<>>

\* a request in flight: where its handler stands, and the handler's local array
Flight(pc, r, local) ==
  [pc |-> pc, op |-> r.op, key |-> r.key, name |-> r.name, data |-> r.data,
   local |-> local]

Request(f) == [op |-> f.op, key |-> f.key, name |-> f.name, data |-> f.data]

\* a handler that also gives up the thread after reading the store
IsAwaitAfterRead(pc) == pc \in {"body", "db", "idle", "loaded"}

\* the handler gives up the thread at an await (the request body, the database
\* call) and when it returns; everything else runs to completion
IsAwait(pc) == pc \in {"body", "db", "idle"}

\* a rename that does not wait for the write to return
CanRenameEarly(pc) == pc \in {"writing", "written"}

\* fs.renameSync follows fs.writeFileSync
CanRename(pc) == pc = "written"

Goto(i, pc, local) ==
  /\ inflight' = [inflight EXCEPT ![i] = [@ EXCEPT !.pc = pc, !.local = local]]
  /\ running' = IF IsAwait(pc) THEN 0 ELSE i
  /\ UNCHANGED <<req, resp>>

\* sendJson and return
Answer(i, response) ==
  /\ req' = Request(inflight[i])
  /\ resp' = response
  /\ inflight' = [inflight EXCEPT ![i] = Idle]
  /\ running' = 0

\* a mutating request arrives: the handler runs up to its first await, or into
\* the synchronous store access of the file server
Receive(i, r) ==
  /\ running = 0
  /\ inflight[i] = Idle
  /\ IF ~isAdmin(r.key)
     THEN /\ req' = r
          /\ resp' = Reply(403, "Wrong key")
          /\ UNCHANGED <<inflight, running>>
     ELSE IF r.op = "create"
     THEN /\ inflight' = [inflight EXCEPT ![i] = Flight("body", r, <<>>)]
          /\ running' = IF IsAwait("body") THEN 0 ELSE i
          /\ UNCHANGED <<req, resp>>
     ELSE IF QueryName(r.name) = <<>>
     THEN /\ req' = r
          /\ resp' = Reply(400, "Missing name")
          /\ UNCHANGED <<inflight, running>>
     ELSE LET pc == IF backend \in DbBackends THEN "db" ELSE "read" IN
            /\ inflight' = [inflight EXCEPT ![i] = Flight(pc, r, <<>>)]
            /\ running' = IF IsAwait(pc) THEN 0 ELSE i
            /\ UNCHANGED <<req, resp>>
  /\ UNCHANGED <<backend, cars, now, tmpFile>>

\* POST /cars after await readBody(req): JSON.parse and the validation
BodyRead(i) ==
  /\ running = 0
  /\ inflight[i].pc = "body"
  /\ IF inflight[i].data = BadJson
     THEN Answer(i, Reply(400, "Bad JSON"))
     ELSE IF ValidationError(inflight[i].data) # ""
     THEN Answer(i, Reply(400, ValidationError(inflight[i].data)))
     ELSE Goto(i, IF backend \in DbBackends THEN "db" ELSE "read", <<>>)
  /\ UNCHANGED <<backend, cars, now, tmpFile>>

\* the file server reads cars.json and builds the array it will write
ReadStore(i) ==
  /\ running \in {0, i}
  /\ inflight[i].pc = "read"
  /\ LET name == QueryName(inflight[i].name) IN
       CASE inflight[i].op = "create" ->
              /\ Len(cars) < MaxCars
              /\ Goto(i, "loaded", Append(cars, FileCar(inflight[i].data)))
         [] inflight[i].op = "delete" ->
              IF Len(Remaining(name)) = Len(cars)
              THEN Answer(i, Reply(404, "Not found"))
              ELSE Goto(i, "loaded", Remaining(name))
         [] inflight[i].op = "markSold" ->
              IF Matching(name) = {}
              THEN Answer(i, Reply(404, "Not found"))
              ELSE Goto(i, "loaded", FileMarkSold(Min(Matching(name))))
  /\ UNCHANGED <<backend, cars, now, tmpFile>>

\* fs.writeFileSync(tmpPath, ...) has begun: the temporary file holds a part
WriteTmp(i) ==
  /\ running \in {0, i}
  /\ inflight[i].pc = "loaded"
  /\ tmpFile' = File(inflight[i].local, FALSE)
  /\ Goto(i, "writing", inflight[i].local)
  /\ UNCHANGED <<backend, cars, now>>

\* fs.writeFileSync(tmpPath, ...) has returned
WriteTmpDone(i) ==
  /\ running \in {0, i}
  /\ inflight[i].pc = "writing"
  /\ tmpFile' = File(inflight[i].local, TRUE)
  /\ Goto(i, "written", inflight[i].local)
  /\ UNCHANGED <<backend, cars, now>>

\* fs.renameSync(tmpPath, filePath), then the 200 response
Rename(i) ==
  /\ running \in {0, i}
  /\ CanRename(inflight[i].pc)
  /\ tmpFile.exists
  /\ cars' = Parsed(tmpFile)
  /\ tmpFile' = NoFile
  /\ IF inflight[i].op = "markSold"
     THEN LET local == inflight[i].local
              idx == Min(MatchingIn(local, QueryName(inflight[i].name)))
          IN Answer(i, ReplySold(local[idx].soldDate))
     ELSE Answer(i, Reply(200, ""))
  /\ UNCHANGED <<backend, now>>

\* writeFileSync or renameSync throws: the exception leaves the async handler,
\* which sends nothing
WriteFault(i) ==
  /\ running \in {0, i}
  /\ inflight[i].pc \in {"loaded", "writing", "written"}
  /\ Answer(i, NoResp)
  /\ UNCHANGED <<backend, cars, now, tmpFile>>

\* the database runs the statement of the awaited call and the handler answers
DbCall(i, dbError) ==
  /\ running = 0
  /\ inflight[i].pc = "db"
  /\ LET name == QueryName(inflight[i].name) IN
       CASE inflight[i].op = "create" ->
              IF dbError
              THEN Answer(i, Reply(500, "Database insert failed")) /\ UNCHANGED cars
              ELSE /\ Len(cars) < MaxCars
                   /\ cars' = Append(cars, dbInsertCar(inflight[i].data))
                   /\ Answer(i, Reply(200, ""))
         [] inflight[i].op = "delete" ->
              IF dbError
              THEN Answer(i, Reply(500, "Database delete failed")) /\ UNCHANGED cars
              ELSE IF Len(Remaining(name)) = Len(cars)
              THEN Answer(i, Reply(404, "Not found")) /\ UNCHANGED cars
              ELSE cars' = Remaining(name) /\ Answer(i, Reply(200, ""))
         [] inflight[i].op = "markSold" ->
              IF dbError
              THEN Answer(i, Reply(500, "Database update failed")) /\ UNCHANGED cars
              ELSE /\ cars' = dbMarkSoldByName(name)
                   /\ Answer(i, ReplySold(Str(todayUK(now))))
  /\ UNCHANGED <<backend, now, tmpFile>>

\* the process is killed and started again: its requests are gone, the files stay
Crash ==
  /\ \E i \in Slots : inflight[i] # Idle
  /\ inflight' = [i \in Slots |-> Idle]
  /\ running' = 0
  /\ req' = NoReq
  /\ resp' = NoResp
  /\ UNCHANGED <<backend, cars, now, tmpFile>>

-----------------------------------------------------------------------------
(* Time *)

\* the clock starts at midnight of 25/02/2048 and is observed at each midnight
StartTime == DateTime(2048, 2, 25)

TickStep == SecPerDay

Tick ==
  /\ now + TickStep <= StartTime + MaxDay * SecPerDay
  /\ now' = now + TickStep
  /\ req' = NoReq
  /\ resp' = NoResp
  /\ UNCHANGED <<backend, cars, process>>

\* the clock observed up to MaxSecond seconds after a midnight
TickSecond ==
  /\ (now - StartTime) % SecPerDay < MaxSecond
  /\ now' = now + 1
  /\ req' = NoReq
  /\ resp' = NoResp
  /\ UNCHANGED <<backend, cars, process>>

-----------------------------------------------------------------------------
(* Inputs and specifications *)

a == <<"a">>

b == <<"b">>

\* the x-garage-key header: the admin key, a wrong key, no header.  Node's HTTP
\* parser has removed the blanks around a header value before isAdmin reads it.
Keys == {ADMIN_KEY, <<"x">>, <<>>}

BadKeys == Keys \ {ADMIN_KEY}

QueryNames == {Str(a), Str(<<" ", "A">>), Str(b), Null}

\* the admin key with every name, a wrong key and a missing key with two of them
NamedCalls == ({ADMIN_KEY} \X QueryNames) \cup (BadKeys \X {Str(a), Null})

Payload ==
  [name |-> Str(a), garageId |-> Str(<<"g", "1">>), year |-> Number(Num(2019)),
   price |-> Number(Num(8500)), photos |-> Arr(<<Str(<<"p">>)>>),
   sold |-> Undefined, soldDate |-> Undefined]

Init ==
  /\ backend \in Backends
  /\ cars = <<>>
  /\ now = StartTime
  /\ req = NoReq
  /\ resp = NoResp
  /\ inflight = [i \in Slots |-> Idle]
  /\ running = 0
  /\ tmpFile = NoFile

\* Spec: the life of listings named "a" over the days of the clock
CreateCalls == (Keys \X {Payload}) \cup ({ADMIN_KEY, <<>>} \X {BadJson})

Next ==
  \/ \E e \in BOOLEAN : GetCars(e)
  \/ \E n \in QueryNames, e \in BOOLEAN : GetCarData(n, e)
  \/ \E k \in Keys, e \in BOOLEAN : GetCarsAdmin(k, e)
  \/ \E c \in CreateCalls, e \in BOOLEAN : PostCars(c[1], c[2], e)
  \/ \E c \in NamedCalls, e \in BOOLEAN : DeleteCars(c[1], c[2], e)
  \/ \E c \in NamedCalls, e \in BOOLEAN : PostCarsSold(c[1], c[2], e)
  \/ Tick

Spec == Init /\ [][Next]_vars

\* SpecLive: Spec with a clock that does not stop short of its last day
SpecLive == Spec /\ WF_vars(Tick)

\* SpecCreate: creation with every kind of payload, on a stopped clock
p == <<"p">>

NamePayloads ==
  {[Payload EXCEPT !.name = x] :
     x \in {Str(<<" ", "b">>), Str(<<" ">>), Str(<<>>), Undefined}}

GaragePayloads == {[Payload EXCEPT !.garageId = x] : x \in {Str(<<" ">>), Undefined}}

YearPayloads ==
  {[Payload EXCEPT !.year = x] :
     x \in {Undefined, Null, Number(NumHalf(2019)), Str(<<"x">>), Str(<<>>),
            Str(<<"2", "0", "1", "9">>)}}

PricePayloads ==
  {[Payload EXCEPT !.price = x] :
     x \in {Undefined, Null, Number(Num(0)), Number(Num(-5)), Number(Infinity),
            Number(NumHalf(0)), Str(<<"x">>)}}

PhotosPayloads ==
  {[Payload EXCEPT !.photos = x] :
     x \in {Undefined, Str(p), Arr(<<>>), Arr(<<Str(<<>>)>>), Arr(<<Str(<<" ">>)>>),
            Arr(<<Null>>), Arr(<<Str(<<>>), Str(p)>>)}}

\* 01/02/2048, more than 7 days before the clock starts
OldDate == <<"0", "1", "/", "0", "2", "/", "2", "0", "4", "8">>

\* payloads that carry the fields sold and soldDate themselves
SoldPayloads ==
  {[Payload EXCEPT !.sold = Bool(TRUE), !.soldDate = Str(OldDate)],
   [Payload EXCEPT !.sold = Bool(TRUE)]}

AllPayloads ==
  {Payload, BadJson} \cup NamePayloads \cup GaragePayloads \cup YearPayloads
    \cup PricePayloads \cup PhotosPayloads \cup SoldPayloads

AllCreateCalls == ({ADMIN_KEY} \X AllPayloads) \cup (BadKeys \X {Payload, BadJson})

NextCreate ==
  \/ \E e \in BOOLEAN : GetCars(e)
  \/ \E n \in QueryNames, e \in BOOLEAN : GetCarData(n, e)
  \/ \E k \in Keys, e \in BOOLEAN : GetCarsAdmin(k, e)
  \/ \E c \in AllCreateCalls, e \in BOOLEAN : PostCars(c[1], c[2], e)
  \/ \E c \in NamedCalls, e \in BOOLEAN : DeleteCars(c[1], c[2], e)

SpecCreate == Init /\ [][NextCreate]_vars

\* SpecDates: one listing named "a", created with a soldDate of its own (which
\* the file server stores) or marked sold, read over days and seconds of the clock
DateStrings ==
  {Str(<<"1", "8", "/", "0", "2", "/", "2", "0", "4", "8">>),
   Str(<<"1", "7", "/", "0", "2", "/", "2", "0", "4", "8">>),
   Str(<<" ", "1", "8", "/", "0", "2", "/", "2", "0", "4", "8", " ">>),
   Str(<<"1", "/", "2", "/", "2", "0", "4", "8">>),
   Str(<<"2", "9", "/", "0", "2", "/", "2", "0", "4", "8">>),
   Str(<<"2", "9", "/", "0", "2", "/", "2", "0", "0", "0">>),
   Str(<<"0", "1", "/", "0", "1", "/", "2", "1", "0", "0">>),
   Str(<<"3", "1", "/", "1", "2", "/", "2", "0", "0", "0">>),
   Str(<<"3", "1", "/", "0", "2", "/", "2", "0", "2", "6">>),
   Str(<<"0", "0", "/", "0", "1", "/", "2", "0", "2", "0">>),
   Str(<<"1", "/", "1", "/", "9", "9">>),
   Str(<<"2", "9", "/", "0", "2", "/", "2", "1", "0", "0">>),
   Str(<<"3", "1", "/", "0", "4", "/", "2", "0", "2", "6">>),
   Str(<<"3", "2", "/", "0", "1", "/", "2", "0", "2", "6">>),
   Str(<<"0", "1", "/", "1", "3", "/", "2", "0", "2", "6">>),
   Str(<<"3", "1", "/", "1", "2", "/", "1", "9", "9", "9">>),
   Str(<<"0", "1", "/", "0", "1", "/", "2", "1", "0", "1">>),
   Str(<<"0", "1", "/", "0", "2">>),
   Str(<<"0", "1", "/", "0", "2", "/", "2", "0", "4", "8", "/", "1">>),
   Str(<<"x", "/", "0", "2", "/", "2", "0", "4", "8">>),
   Str(<<"/", "0", "2", "/", "2", "0", "4", "8">>),
   Str(<<>>)}

DatePayloads ==
  {Payload} \cup {[Payload EXCEPT !.sold = Bool(TRUE), !.soldDate = x] : x \in DateStrings}

NextDates ==
  \/ GetCars(FALSE)
  \/ GetCarData(Str(a), FALSE)
  \/ \E d \in DatePayloads : cars = <<>> /\ PostCars(ADMIN_KEY, d, FALSE)
  \/ DeleteCars(ADMIN_KEY, Str(a), FALSE)
  \/ PostCarsSold(ADMIN_KEY, Str(a), FALSE)
  \/ Tick
  \/ TickSecond

SpecDates == Init /\ [][NextDates]_vars

\* SpecSteps: up to MaxInflight mutating requests in flight at once
PayloadB == [Payload EXCEPT !.name = Str(b)]

StepCalls ==
  {[op |-> "create", key |-> ADMIN_KEY, name |-> Null, data |-> Payload],
   [op |-> "create", key |-> ADMIN_KEY, name |-> Null, data |-> PayloadB],
   [op |-> "delete", key |-> ADMIN_KEY, name |-> Str(a), data |-> NoData],
   [op |-> "markSold", key |-> ADMIN_KEY, name |-> Str(a), data |-> NoData],
   [op |-> "markSold", key |-> <<"x">>, name |-> Str(a), data |-> NoData]}

NextSteps ==
  \/ \E i \in Slots, r \in StepCalls : Receive(i, r)
  \/ \E i \in Slots : BodyRead(i)
  \/ \E i \in Slots : ReadStore(i)
  \/ \E i \in Slots : WriteTmp(i)
  \/ \E i \in Slots : WriteTmpDone(i)
  \/ \E i \in Slots : Rename(i)
  \/ \E i \in Slots : WriteFault(i)
  \/ \E i \in Slots, e \in BOOLEAN : DbCall(i, e)
  \/ Crash

SpecSteps == Init /\ [][NextSteps]_vars

\* SpecFrame: listings named "a" and "b" side by side, under every operation
FrameNames == {Str(a), Str(<<" ", "A">>), Str(b)}

NextFrame ==
  \/ GetCars(FALSE)
  \/ \E n \in FrameNames : GetCarData(n, FALSE)
  \/ GetCarsAdmin(ADMIN_KEY, FALSE)
  \/ GetGaragesData
  \/ \E d \in {Payload, PayloadB} : PostCars(ADMIN_KEY, d, FALSE)
  \/ \E n \in FrameNames : DeleteCars(ADMIN_KEY, n, FALSE)
  \/ \E n \in FrameNames : PostCarsSold(ADMIN_KEY, n, FALSE)
  \/ Tick

SpecFrame == Init /\ [][NextFrame]_vars

-----------------------------------------------------------------------------
(* Properties *)

AdminOps == {"create", "delete", "markSold", "listAdmin"}

\* the listings as the list operations present them
Stored == {ListCars[i] : i \in 1..Len(cars)}

\* the listing's soldDate parses to a date more than 7 days before t
SoldOverSevenDaysAgo(c, t) ==
  LET d == parseUKDate(c.soldDate) IN d.ok /\ t - d.time > 7 * SecPerDay

\* the name a request asks for
AskedName == QueryName(req.name)

\* C1: whenever GET /cars answers, its body is exactly the stored listings, in
\* order, that were not sold more than 7 days before now; it answers 200 unless
\* the database call failed (500)
C1_PublicListIsVisibleListings ==
  req.op = "listPublic" =>
    /\ resp.status \in {200, 500}
    /\ backend = "file" => resp.status = 200
    /\ resp.status = 200 =>
         LET Visible(c) == ~SoldOverSevenDaysAgo(c, now) IN
           resp.body = SelectSeq(ListCars, Visible)

\* a public list that leaves out an old sale and keeps another listing
C1_Witness ==
  /\ req.op = "listPublic"
  /\ resp.status = 200
  /\ Len(resp.body) = 1
  /\ Len(cars) = 2
  /\ \E i \in 1..2 : SoldOverSevenDaysAgo(cars[i], now)

\* C2: GET /car-data with a name answers 404 when no stored listing matches or
\* the matched listing was sold more than 7 days ago (for the file server the
\* first match, for the database any match), and 200 with one stored, matching
\* and visible listing otherwise, unless the database call failed (500)
C2_GetByNameNotFoundOrVisible ==
  (req.op = "getByName" /\ AskedName # <<>> /\ resp.status # 500) =>
    LET hits == {ListCars[i] : i \in Matching(AskedName)} IN
      /\ resp.status \in {200, 404}
      /\ hits = {} => resp.status = 404
      /\ (\A c \in hits : SoldOverSevenDaysAgo(c, now)) => resp.status = 404
      /\ resp.status = 404 =>
           /\ resp.body = <<>>
           /\ hits = {} \/ \E c \in hits : SoldOverSevenDaysAgo(c, now)
      /\ resp.status = 200 =>
           /\ Len(resp.body) = 1
           /\ resp.body[1] \in hits
           /\ ~SoldOverSevenDaysAgo(resp.body[1], now)
      /\ (backend = "file" /\ hits # {}) =>
           (resp.status = 404 <=>
              SoldOverSevenDaysAgo(cars[Min(Matching(AskedName))], now))

\* a stored listing that matches the name and is answered 404 because it is hidden
C2_Witness ==
  /\ req.op = "getByName"
  /\ resp.status = 404
  /\ Matching(AskedName) # {}

\* C3: with the admin key GET /cars-admin answers every stored listing, old sales
\* included, unless the database call failed; a listing sold more than 7 days ago
\* is in no public list
C3_AdminListIsEverything ==
  /\ (req.op = "listAdmin" /\ req.key = ADMIN_KEY /\ resp.status # 500) =>
       /\ resp.status = 200
       /\ Len(resp.body) = Len(cars)
       /\ \A i \in 1..Len(cars) :
            /\ resp.body[i].name = cars[i].name
            /\ resp.body[i].sold = cars[i].sold
            /\ resp.body[i].soldDate = cars[i].soldDate
  /\ (req.op = "listPublic" /\ resp.status = 200) =>
       \A i \in 1..Len(resp.body) : ~SoldOverSevenDaysAgo(resp.body[i], now)

\* an admin list that carries a listing sold more than 7 days ago
C3_Witness ==
  /\ req.op = "listAdmin"
  /\ resp.status = 200
  /\ \E i \in 1..Len(resp.body) :
       resp.body[i].sold = Bool(TRUE) /\ SoldOverSevenDaysAgo(resp.body[i], now)

\* C4: a create, delete, markSold or listAdmin request whose key is not the admin
\* key is answered 403 with no listing and no sold date, and the store is as before
C4_WrongKeyIsForbidden ==
  [][(req'.op \in AdminOps /\ req'.key # ADMIN_KEY) =>
       /\ resp'.status = 403
       /\ resp'.body = <<>>
       /\ resp'.soldDate = Undefined
       /\ cars' = cars]_vars

\* a keyless delete without a name is answered 403 while listings are stored
C4_Witness ==
  /\ req.op = "delete"
  /\ req.key # ADMIN_KEY
  /\ req.name = Null
  /\ resp.status = 403
  /\ Len(cars) > 0

\* the listings a markSold by name writes: every matching row of the table, the
\* first matching object of the file
SoldTargets(name) ==
  IF Matching(name) = {} THEN {}
  ELSE IF backend \in DbBackends THEN Matching(name)
  ELSE {Min(Matching(name))}

\* C5: a successful markSold on a listing that an earlier markSold gave a soldDate
\* answers that soldDate and leaves it stored
C5_MarkSoldKeepsFirstSoldDate ==
  [][(req'.op = "markSold" /\ resp'.status = 200) =>
       \A i \in SoldTargets(QueryName(req'.name)) :
         (cars[i].sold = Bool(TRUE) /\ Truthy(cars[i].soldDate)) =>
           /\ cars'[i].soldDate = cars[i].soldDate
           /\ resp'.soldDate = cars[i].soldDate]_vars

RECURSIVE IsSubSeq(_, _)
\* s is t with some elements left out
IsSubSeq(s, t) ==
  IF s = <<>> THEN TRUE
  ELSE IF t = <<>> THEN FALSE
  ELSE IF Head(s) = Head(t) THEN IsSubSeq(Tail(s), Tail(t))
  ELSE IsSubSeq(s, Tail(t))

\* C6: no step resets sold: when no record is removed, every record that was sold
\* is still sold; when records are removed, the others are kept as they were
C6_SoldIsOneWay ==
  [][IF Len(cars') >= Len(cars)
     THEN \A i \in 1..Len(cars) : cars[i].sold = Bool(TRUE) => cars'[i].sold = Bool(TRUE)
     ELSE IsSubSeq(cars', cars)]_vars

\* a second markSold, on a later day, of a listing that is already sold
C6_Witness ==
  /\ req.op = "markSold"
  /\ resp.status = 200
  /\ \E i \in 1..Len(cars) :
       /\ cars[i].sold = Bool(TRUE)
       /\ (backend = "file" => cars[i].soldDate # Str(todayUK(now)))
  /\ now > StartTime

\* C7: markSold with the admin key and a name no stored listing matches answers
\* 404 without a sold date and leaves the store as it was (unless the database
\* call failed)
C7_MarkSoldUnknownIsNotFound ==
  [][(/\ req'.op = "markSold"
      /\ req'.key = ADMIN_KEY
      /\ QueryName(req'.name) # <<>>
      /\ Matching(QueryName(req'.name)) = {}
      /\ resp'.status # 500) =>
       /\ resp'.status = 404
       /\ resp'.soldDate = Undefined
       /\ cars' = cars]_vars

StoredNames == {a, b, <<"A">>}

\* C8: delete with the admin key answers 404 and changes nothing when no listing
\* matches, and otherwise answers 200 and leaves no matching listing (unless the
\* database call failed); a name without a listing gets one only by a successful
\* create of that name; and every listing a response carries is stored
C8_DeleteRemovesUntilCreate ==
  [][/\ (/\ req'.op = "delete"
         /\ req'.key = ADMIN_KEY
         /\ QueryName(req'.name) # <<>>
         /\ resp'.status # 500) =>
          IF Matching(QueryName(req'.name)) = {}
          THEN resp'.status = 404 /\ cars' = cars
          ELSE resp'.status = 200 /\ MatchingIn(cars', QueryName(req'.name)) = {}
     /\ \A n \in StoredNames :
          (Matching(n) = {} /\ MatchingIn(cars', n) # {}) =>
            /\ req'.op = "create"
            /\ resp'.status = 200
            /\ req'.data # BadJson
            /\ IF backend \in DbBackends THEN TrimmedOrEmpty(req'.data.name) = n
               ELSE ToLowerCase(TrimmedOrEmpty(req'.data.name)) = ToLowerCase(n)
     /\ \A i \in 1..Len(resp'.body) : resp'.body[i] \in Stored']_vars

\* a successful delete, on a later day, that emptied the store
C8_Witness ==
  /\ req.op = "delete"
  /\ resp.status = 200
  /\ cars = <<>>
  /\ now > StartTime

\* what the claims on create say of a payload's fields
BlankText(x) == x.k # "string" \/ Trim(x.s) = <<>>

DigitText(x) ==
  x.k = "string" /\ Trim(x.s) # <<>> /\ \A i \in 1..Len(Trim(x.s)) : IsDigit(Trim(x.s)[i])

IntegerYear(x) == (x.k = "number" /\ x.n.k = "num" /\ ~x.n.half) \/ DigitText(x)

PositivePrice(x) ==
  \/ x.k = "number" /\ x.n.k = "num" /\ (x.n.v > 0 \/ (x.n.v = 0 /\ x.n.half))
  \/ DigitText(x) /\ DecValue(Trim(x.s)) > 0

NoPhotos(x) == x.k # "array" \/ Len(x.a) = 0

NonBlankPhoto(x) == x.k = "string" /\ Trim(x.s) # <<>>

SomeNonBlankPhoto(photos) == \E j \in 1..Len(photos) : NonBlankPhoto(photos[j])

InvalidPayload(d) ==
  \/ BlankText(d.name)
  \/ BlankText(d.garageId)
  \/ ~IntegerYear(d.year)
  \/ ~PositivePrice(d.price)
  \/ NoPhotos(d.photos)

ValidPayload(d) ==
  /\ ~InvalidPayload(d)
  /\ SomeNonBlankPhoto(d.photos.a)

\* C9: create with the admin key answers 400 and changes nothing when name or
\* garageId is blank, year is no integer, price is not a finite number above 0 or
\* photos is empty; a payload with none of these faults and a non-blank photo is
\* stored as one more listing (unless the database call failed)
C9_CreateValidation ==
  [][(req'.op = "create" /\ req'.key = ADMIN_KEY /\ req'.data # BadJson) =>
       /\ InvalidPayload(req'.data) => (resp'.status = 400 /\ cars' = cars)
       /\ (ValidPayload(req'.data) /\ resp'.status # 500) =>
            /\ resp'.status = 200
            /\ Len(cars') = Len(cars) + 1
            /\ SubSeq(cars', 1, Len(cars)) = cars]_vars

\* C10: every stored listing has a non-blank photo, and create with the admin key
\* answers 400 when the payload has none
C10_StoredPhotosNonBlank ==
  [][/\ \A i \in 1..Len(cars') : SomeNonBlankPhoto(cars'[i].photos)
     /\ (/\ req'.op = "create"
         /\ req'.key = ADMIN_KEY
         /\ req'.data # BadJson
         /\ ~SomeNonBlankPhoto(ArrayOrEmpty(req'.data.photos))) =>
          resp'.status = 400]_vars

\* C11: when a create of a valid payload has succeeded and its name has a single
\* stored listing, the getByName of that name that follows it answers 200 with the
\* new listing, not sold, without a soldDate and with photo the first of its
\* photos, and the public list of that state holds it (unless the database call
\* failed)
C11_CreateThenGetByName ==
  [][(/\ req.op = "create"
      /\ resp.status = 200
      /\ ValidPayload(req.data)
      /\ req'.op = "getByName"
      /\ QueryName(req'.name) = TrimmedOrEmpty(req.data.name)
      /\ Cardinality(Matching(QueryName(req'.name))) = 1
      /\ resp'.status # 500) =>
       /\ resp'.status = 200
       /\ resp'.body = <<ListCars[Len(cars)]>>
       /\ ~Truthy(resp'.body[1].sold)
       /\ ~Truthy(resp'.body[1].soldDate)
       /\ resp'.body[1].photo = resp'.body[1].photos[1]
       /\ ~soldTooOld(ListCars[Len(cars)], now)]_vars

\* the calendar, from the lengths of the months
IsLeapYear(y) == y % 4 = 0 /\ (y % 100 # 0 \/ y % 400 = 0)

DaysInMonth(m, y) ==
  CASE m = 2 -> IF IsLeapYear(y) THEN 29 ELSE 28
    [] m \in {4, 6, 9, 11} -> 30
    [] OTHER -> 31

\* days from 01/01/2000 to 01/01/y
RECURSIVE DaysBeforeYear(_)
DaysBeforeYear(y) ==
  IF y <= 2000 THEN 0
  ELSE DaysBeforeYear(y - 1) + (IF IsLeapYear(y - 1) THEN 366 ELSE 365)

\* days from 01/01/y to the first of month m
RECURSIVE DaysBeforeMonth(_, _)
DaysBeforeMonth(m, y) ==
  IF m <= 1 THEN 0 ELSE DaysBeforeMonth(m - 1, y) + DaysInMonth(m - 1, y)

RefDayNumber(y, m, d) == DaysBeforeYear(y) + DaysBeforeMonth(m, y) + d - 1

\* midnight of d/m/y on the model's time scale
RefTime(y, m, d) == (RefDayNumber(y, m, d) - RefDayNumber(2050, 1, 1)) * SecPerDay

\* the date a value names: a string of three "/"-separated integers d, m, y with
\* d in 1..31, m in 1..12, y in 2000..2100 and d a day of month m of year y
RefDate(x) ==
  IF x.k # "string" THEN NoDate
  ELSE
    LET parts == Split(Trim(x.s), "/") IN
      IF Len(parts) # 3 \/ \E i \in 1..3 : ~DigitText(Str(parts[i])) THEN NoDate
      ELSE
        LET d == DecValue(Trim(parts[1]))
            m == DecValue(Trim(parts[2]))
            y == DecValue(Trim(parts[3]))
        IN
          IF d \in 1..31 /\ m \in 1..12 /\ y \in 2000..2100 /\ d <= DaysInMonth(m, y)
          THEN [ok |-> TRUE, time |-> RefTime(y, m, d)]
          ELSE NoDate

\* the reference rule of visibility
RefVisible(c, t) ==
  LET d == RefDate(c.soldDate) IN ~d.ok \/ t - d.time <= 7 * SecPerDay

\* C12: soldTooOld is the negation of the reference rule for every stored listing
\* at every instant (visible without a soldDate, visible when the soldDate names
\* no date, otherwise visible exactly while now - soldDate <= 7 days), and the
\* public reads answer by that rule
C12_VisibilityPolicy ==
  /\ \A i \in 1..Len(cars) : soldTooOld(ListCars[i], now) <=> ~RefVisible(ListCars[i], now)
  /\ (req.op = "listPublic" /\ resp.status = 200) =>
       LET Visible(c) == RefVisible(c, now) IN resp.body = SelectSeq(ListCars, Visible)
  /\ (req.op = "getByName" /\ Len(cars) = 1 /\ Matching(AskedName) # {}) =>
       IF RefVisible(ListCars[1], now) THEN resp.status = 200 ELSE resp.status = 404

\* a public list, 7 days and 1 second after the listing's soldDate, without it
C12_Witness ==
  /\ req.op = "listPublic"
  /\ resp.status = 200
  /\ resp.body = <<>>
  /\ Len(cars) = 1
  /\ RefDate(cars[1].soldDate).ok
  /\ now - RefDate(cars[1].soldDate).time = 7 * SecPerDay + 1

\* C13: parseUKDate yields a date exactly for the strings that name a real date
\* d/m/y with y in 2000..2100, and then the midnight of that d/m/y; for every
\* other value, "" and undefined included, it yields the failure value
C13_ParseUKDate ==
  /\ (req.op = "create" /\ req.data # BadJson) =>
       parseUKDate(req.data.soldDate) = RefDate(req.data.soldDate)
  /\ \A i \in 1..Len(cars) : parseUKDate(cars[i].soldDate) = RefDate(cars[i].soldDate)

\* 31/02/2026, stored as a listing's soldDate, is no date: the listing is listed
C13_Witness ==
  /\ req.op = "listPublic"
  /\ Len(resp.body) = 1
  /\ Len(cars) = 1
  /\ cars[1].soldDate = Str(<<"3", "1", "/", "0", "2", "/", "2", "0", "2", "6">>)
  /\ ~parseUKDate(cars[1].soldDate).ok

\* the listings whose name is the given one up to letter case
CaseMatchingIn(list, name) ==
  {i \in 1..Len(list) : ToLowerCase(list[i].name) = ToLowerCase(name)}

\* C14: getByName, delete and markSold (the last two with the admin key) called
\* with a name that equals a stored listing's name up to letter case find it:
\* getByName answers it unless it is hidden, delete answers 200 and leaves no
\* listing of that name in any letter case, markSold answers 200 and a listing of
\* that name is sold (unless the database call failed)
C14_LookupIgnoresCase ==
  [][(/\ req'.op \in {"getByName", "delete", "markSold"}
      /\ (req'.op # "getByName" => req'.key = ADMIN_KEY)
      /\ QueryName(req'.name) # <<>>
      /\ resp'.status # 500
      /\ CaseMatchingIn(cars, QueryName(req'.name)) # {}) =>
       /\ req'.op = "getByName" =>
            \/ resp'.status = 200
            \/ \E i \in CaseMatchingIn(cars, QueryName(req'.name)) :
                 soldTooOld(ListCars[i], now)
       /\ req'.op = "delete" =>
            /\ resp'.status = 200
            /\ CaseMatchingIn(cars', QueryName(req'.name)) = {}
       /\ req'.op = "markSold" =>
            /\ resp'.status = 200
            /\ \E i \in CaseMatchingIn(cars, QueryName(req'.name)) :
                 cars'[i].sold = Bool(TRUE)]_vars

\* C15: no two stored listings have the same name
C15_UniqueNames ==
  \A i, j \in 1..Len(cars) : i # j => cars[i].name # cars[j].name

\* slot i held a request that this step answers
Answered(i) ==
  /\ inflight[i].pc # "idle"
  /\ inflight'[i].pc = "idle"
  /\ req' = Request(inflight[i])

\* the listings of a list that a name does not select on this backend
Others(list, name) ==
  LET Keep(c) == IF backend \in DbBackends THEN c.name # name
                 ELSE ToLowerCase(c.name) # ToLowerCase(name)
  IN SelectSeq(list, Keep)

\* C16: whatever else is in flight, a mutating request that is answered 200 has
\* applied its change to the store as it was at that step (a create adds its
\* listing to all the listings stored, a delete removes the listings of its name
\* and no other, a markSold keeps every listing and alters only those of its
\* name), and no other step changes the store: no update is lost
C16_NoLostUpdate ==
  [][/\ \A i \in Slots :
          (Answered(i) /\ resp'.status = 200) =>
            LET f == inflight[i]
                name == QueryName(f.name)
            IN CASE f.op = "create" ->
                      /\ Len(cars') = Len(cars) + 1
                      /\ SubSeq(cars', 1, Len(cars)) = cars
                      /\ cars'[Len(cars')].name = TrimmedOrEmpty(f.data.name)
                 [] f.op = "delete" -> cars' = Others(cars, name)
                 [] f.op = "markSold" ->
                      /\ Len(cars') = Len(cars)
                      /\ Others(cars', name) = Others(cars, name)
                      /\ \A j \in 1..Len(cars) : cars'[j].name = cars[j].name
                      /\ \A j \in MatchingIn(cars, name) :
                           cars[j].sold = Bool(TRUE) => cars'[j].sold = Bool(TRUE)
                      /\ MatchingIn(cars, name) # {} =>
                           \E j \in MatchingIn(cars, name) : cars'[j].sold = Bool(TRUE)
     /\ cars' # cars => \E i \in Slots : Answered(i) /\ resp'.status = 200]_vars

\* a create is answered 200 while a create or a markSold received before that
\* answer is still in flight, both listings being stored
C16_Witness ==
  /\ req.op = "create"
  /\ resp.status = 200
  /\ Len(cars) = 2
  /\ \E i \in Slots :
       /\ inflight[i].pc \in {"body", "db"}
       /\ inflight[i].op \in {"create", "markSold"}

\* C17: on the file server the live document changes only by the rename of a
\* temporary file that holds, in full, the document the handler built; a crash
\* or a failing write at any step leaves the live document as it was
C17_AtomicFileWrite ==
  [][(backend = "file" /\ cars' # cars) =>
       /\ tmpFile.exists
       /\ tmpFile.complete
       /\ cars' = tmpFile.doc
       /\ tmpFile' = NoFile
       /\ \E i \in Slots :
            /\ Answered(i)
            /\ inflight[i].pc = "written"
            /\ inflight[i].local = tmpFile.doc]_vars

\* after a crash in the middle of a write, the temporary file holds a part of
\* another document and the live document is whole
C17_Witness ==
  /\ backend = "file"
  /\ req = NoReq
  /\ \A i \in Slots : inflight[i] = Idle
  /\ tmpFile.exists
  /\ ~tmpFile.complete
  /\ cars # <<>>
  /\ cars # tmpFile.doc

\* C18: every request that ends is answered with a status of a defined kind, and
\* one answered 500 has left the store as it was
C18_StoreFailureAnswered ==
  [][\A i \in Slots :
       Answered(i) =>
         /\ resp'.status \in {200, 400, 403, 404, 500}
         /\ resp'.status = 500 => cars' = cars]_vars

\* C19: a stored listing that the visibility rule hides stays hidden through
\* every step that keeps it stored (markSold calls and the passing of time)
C19_LifecycleForward ==
  [][Len(cars') = Len(cars) =>
       \A i \in 1..Len(cars) :
         ~RefVisible(cars[i], now) => ~RefVisible(cars'[i], now')]_vars

\* the date todayUK writes parses back to the midnight of the day it was written
TodayRoundTrips ==
  LET d == parseUKDate(Str(todayUK(now))) IN
    d.ok /\ d.time = now - ((now - StartTime) % SecPerDay)

\* the first stored listing is sold and the clock has not moved since the start,
\* so that its first markSold was at StartTime
SoldAtStart == now = StartTime /\ cars # <<>> /\ cars[1].sold = Bool(TRUE)

EightDaysOn == now >= StartTime + 8 * SecPerDay

FirstHidden == cars = <<>> \/ ~RefVisible(cars[1], now)

\* C20: the date markSold writes always parses back to its day, and a listing
\* marked sold at StartTime is, unless the store is emptied by a delete, out of
\* the public list from 8 days after StartTime on
C20_SoldEventuallyHidden ==
  /\ []TodayRoundTrips
  /\ [](SoldAtStart => ([](EightDaysOn => FirstHidden) \/ <>(cars = <<>>)))

\* C21: getByName answers a listing (200), rather than 404, exactly when the public
\* list of the same store at the same instant holds a listing of that name,
\* also when several stored listings bear the name
C21_PublicReadsAgree ==
  (req.op = "getByName" /\ AskedName # <<>> /\ resp.status # 500) =>
    LET NotTooOld(c) == ~soldTooOld(c, now)
        public == SelectSeq(ListCars, NotTooOld)
    IN (resp.status = 200) <=> (MatchingIn(public, AskedName) # {})

\* the listings whose name differs from the given one even in lower case
Unnamed(list, name) ==
  LET Differs(c) == ToLowerCase(c.name) # ToLowerCase(name) IN SelectSeq(list, Differs)

\* C22: delete and markSold leave every listing of another name stored and as it
\* was, markSold keeps every listing and alters no field but sold and soldDate,
\* and the read operations leave the store as it was
C22_FrameEffects ==
  [][/\ req'.op \in {"delete", "markSold"} =>
          Unnamed(cars', QueryName(req'.name)) = Unnamed(cars, QueryName(req'.name))
     /\ req'.op = "markSold" =>
          /\ Len(cars') = Len(cars)
          /\ \A j \in 1..Len(cars) :
               cars'[j] = [cars[j] EXCEPT !.sold = cars'[j].sold,
                                          !.soldDate = cars'[j].soldDate]
     /\ req'.op \in {"listPublic", "getByName", "listAdmin", "listGarages"} =>
          cars' = cars]_vars

\* a delete of "a" went through and the listing "b" is still stored
C22_Witness ==
  /\ req.op = "delete"
  /\ resp.status = 200
  /\ QueryName(req.name) = a
  /\ cars # <<>>
  /\ \A i \in 1..Len(cars) : cars[i].name = b

====
